---- MODULE Spec2Model ----
(***************************************************************************)
(* Regula Falsi (false position) root finder of app.py.                    *)
(*                                                                         *)
(* Numbers are rationals <<n, d>> in lowest terms (d > 0).  The program    *)
(* computes with binary floating point: every arithmetic operation gives   *)
(* the exact result rounded to the nearest representable value, ties to    *)
(* even.  The model keeps that rounding with a reduced width: Prec         *)
(* significand bits, gradual underflow below 2^-FracBits, no upper limit   *)
(* on the exponent.  A second specification (SpecExact) runs the same      *)
(* program without rounding, for the one run whose tolerance (1e-6) is far *)
(* below what the reduced width can resolve and far above the rounding     *)
(* error of the 53-bit format the program really uses.                     *)
(***************************************************************************)
EXTENDS Integers, Sequences, FiniteSets

\* ------------------------------------------------------------- bounds
Prec == 3          \* significand bits of the reduced floating-point format
FracBits == 2      \* the smallest positive value is 2^-FracBits
MaxIn == 7         \* inputs a, b range over the quarters n/4, |n| <= MaxIn
MaxK == 2          \* the constant k of f ranges over -MaxK..MaxK
MaxIterBound == 3  \* max_iter ranges over 1..MaxIterBound
MaxIterExact == 11 \* max_iter of the exact runs: 1..MaxIterExact, and DefaultMaxIter
MaxTolDigits == 6  \* tol of the exact runs: 10^-1 .. 10^-MaxTolDigits

\* -------------------------------------------------- program constants
DefaultMaxIter == 50   \* app.py:23 and the default of regula_falsi

VARIABLES
    exact,      \* TRUE: arithmetic without rounding (SpecExact)
    pc,         \* "idle", "loop", "exit", "done", "raised"
    fx,         \* the function compiled from the sidebar's expression
    in_a,       \* sidebar: lower bound a
    in_b,       \* sidebar: upper bound b
    tol,        \* sidebar: tolerance on |f(c)|
    max_iter,   \* sidebar: iteration cap
    a, b,       \* regula_falsi: current bracket
    fa, fb,     \* regula_falsi: function values at the bracket's ends
    i,          \* regula_falsi: loop counter (0 before the loop)
    rows,       \* regula_falsi: the iteration records appended so far
    c_exact,    \* whether the last false-position point was computed without rounding
    state,      \* how the run ended: "Running", "Converged", "MaxIterReached", "Failed"
    err,        \* the exception raised: "none", "SignError", "EvalError", "ZeroDivisionError"
    df,         \* the DataFrame regula_falsi returned (<<>> before)
    root, froot, iters   \* the summary the main action shows

vars == <<exact, pc, fx, in_a, in_b, tol, max_iter, a, b, fa, fb, i, rows,
          c_exact, state, err, df, root, froot, iters>>

\* ---------------------------------------------------- exact rationals
RECURSIVE Pow2(_)
Pow2(n) == IF n <= 0 THEN 1 ELSE 2 * Pow2(n - 1)

RECURSIVE Pow10(_)
Pow10(n) == IF n <= 0 THEN 1 ELSE 10 * Pow10(n - 1)

IAbs(n) == IF n < 0 THEN -n ELSE n

RECURSIVE Gcd(_, _)
Gcd(m, n) == IF n = 0 THEN m ELSE Gcd(n, m % n)

\* The rational n/d in lowest terms with a positive denominator.
Norm(n, d) ==
    LET g == Gcd(IAbs(n), IAbs(d))
        s == IF d < 0 THEN -1 ELSE 1
    IN  <<s * (n \div g), s * (d \div g)>>

Whole(n) == <<n, 1>>
Zero == <<0, 1>>
Undef == <<0, 0>>     \* an evaluation that raised

RAdd(x, y) ==
    LET g == Gcd(x[2], y[2])
    IN  Norm(x[1] * (y[2] \div g) + y[1] * (x[2] \div g), (x[2] \div g) * y[2])
RNeg(x) == <<-x[1], x[2]>>
RSub(x, y) == RAdd(x, RNeg(y))
RMul(x, y) ==
    LET p == Norm(x[1], y[2])
        q == Norm(y[1], x[2])
    IN  Norm(p[1] * q[1], p[2] * q[2])
RDiv(x, y) == RMul(x, IF y[1] < 0 THEN <<-y[2], -y[1]>> ELSE <<y[2], y[1]>>)
RAbs(x) == <<IAbs(x[1]), x[2]>>
RLt(x, y) == x[1] * y[2] < y[1] * x[2]
RLe(x, y) == x[1] * y[2] <= y[1] * x[2]
RMin(x, y) == IF RLe(x, y) THEN x ELSE y
RMax(x, y) == IF RLe(x, y) THEN y ELSE x

\* ------------------------------------------------------ floating point
\* floor(n / (d * 2^e)) for n >= 0, d > 0 and any integer e.
Quot(n, d, e) ==
    IF e >= 0 THEN n \div (d * Pow2(e)) ELSE (n * Pow2(-e)) \div d

\* The exponent of the quantum of n/d: the least e >= -FracBits with
\* n/d < 2^Prec * 2^e.
RECURSIVE Expo(_, _, _)
Expo(n, d, e) == IF Quot(n, d, e) < Pow2(Prec) THEN e ELSE Expo(n, d, e + 1)

\* Round to nearest, ties to even.
Round(x) ==
    IF x[1] = 0 THEN Zero
    ELSE LET n   == IAbs(x[1])
             e   == Expo(n, x[2], -FracBits)
             num == IF e >= 0 THEN n ELSE n * Pow2(-e)
             den == IF e >= 0 THEN x[2] * Pow2(e) ELSE x[2]
             fl  == num \div den
             rem == num - fl * den
             m   == IF 2 * rem > den \/ (2 * rem = den /\ fl % 2 = 1)
                    THEN fl + 1 ELSE fl
             s   == IF x[1] < 0 THEN -1 ELSE 1
         IN  IF e >= 0 THEN Norm(s * m * Pow2(e), 1) ELSE Norm(s * m, Pow2(-e))

\* The result of one arithmetic operation of the program.
Rnd(x) == IF exact THEN x ELSE Round(x)

Sub(x, y) == Rnd(RSub(x, y))
Mul(x, y) == Rnd(RMul(x, y))
Div(x, y) == Rnd(RDiv(x, y))

\* np.sign of a real value
Sign(x) == IF x[1] > 0 THEN 1 ELSE IF x[1] < 0 THEN -1 ELSE 0

\* ------------------------------------------------------- the function
\* make_func: the expressions "x - k", "x**2 - k" and "1/x - k", compiled to
\* float arithmetic; 1/x raises ZeroDivisionError at x = 0.
F(f, x) ==
    CASE f.kind = "lin" -> Sub(x, f.k)
      [] f.kind = "sq"  -> Sub(Mul(x, x), f.k)
      [] f.kind = "inv" -> IF x = Zero THEN Undef ELSE Sub(Div(Whole(1), x), f.k)

\* ------------------------------------------------------- regula_falsi
\* Mutant of SameSign: the test written as a product, which lets two zero
\* values through.
SameSignStrict(xfa, xfb) == Sign(xfa) * Sign(xfb) > 0

\* The entry test of line 44.
SameSign(xfa, xfb) == Sign(xfa) = Sign(xfb)

\* Mutant of FalsePosition: a sign slip in the numerator.
FalsePositionPlus(xa, xb, xfa, xfb) ==
    LET p1  == RMul(xa, xfb)
        m1  == Rnd(p1)
        p2  == RMul(xb, xfa)
        m2  == Rnd(p2)
        d1  == RAdd(m1, m2)
        num == Rnd(d1)
        d2  == RSub(xfb, xfa)
        den == Rnd(d2)
        q   == RDiv(num, den)
        res == Rnd(q)
    IN  [c |-> res,
         exact |-> m1 = p1 /\ m2 = p2 /\ num = d1 /\ den = d2 /\ res = q]

\* Line 51: c = (a * fb - b * fa) / (fb - fa), with whether any of its five
\* operations rounded.  Called only when fb - fa is not zero.
FalsePosition(xa, xb, xfa, xfb) ==
    LET p1  == RMul(xa, xfb)
        m1  == Rnd(p1)
        p2  == RMul(xb, xfa)
        m2  == Rnd(p2)
        d1  == RSub(m1, m2)
        num == Rnd(d1)
        d2  == RSub(xfb, xfa)
        den == Rnd(d2)
        q   == RDiv(num, den)
        res == Rnd(q)
    IN  [c |-> res,
         exact |-> m1 = p1 /\ m2 = p2 /\ num = d1 /\ den = d2 /\ res = q]

\* Mutant of MkRow: records numbered from 0.
MkRowZeroBased(k, xa, xb, xc, xfa, xfb, xfc) ==
    [iter |-> k - 1, a |-> xa, b |-> xb, c |-> xc, fa |-> xfa, fb |-> xfb, fc |-> xfc]

\* Line 53: the record of one iteration.
MkRow(k, xa, xb, xc, xfa, xfb, xfc) ==
    [iter |-> k, a |-> xa, b |-> xb, c |-> xc, fa |-> xfa, fb |-> xfb, fc |-> xfc]

\* Mutant of Stop: the absolute value forgotten.
StopNoAbs(xfc, xtol) == RLe(xfc, xtol)

\* Mutant of Stop: a strict comparison.
StopStrict(xfc, xtol) == RLt(RAbs(xfc), xtol)

\* Line 55: the stopping test.
Stop(xfc, xtol) == RLe(RAbs(xfc), xtol)

\* Mutant of ReplaceB: a zero sign routed to the (b, fb) replacement.
ReplaceBOrTie(xfa, xfc) == Sign(xfa) * Sign(xfc) <= 0

\* Line 59: which end of the bracket the update replaces.
ReplaceB(xfa, xfc) == Sign(xfa) * Sign(xfc) < 0

\* Mutant of Raise: the exception is swallowed and the loop left, as after
\* a break.
RaiseBreaks(kind) ==
    /\ pc' = "exit" /\ err' = err /\ state' = "MaxIterReached"
    /\ UNCHANGED <<a, b, fa, fb, i, rows, c_exact>>

\* An exception leaves regula_falsi: the locals are dropped, nothing is
\* returned, and the main action shows the error (lines 80-81).
Raise(kind) ==
    /\ pc' = "raised" /\ err' = kind /\ state' = "Failed"
    /\ UNCHANGED <<a, b, fa, fb, i, rows, c_exact>>

\* -------------------------------------------------------------- inputs
\* The quarters n/4 with |n| <= m, as floats.
FloatsUpTo(m) == {Round(Norm(n, 4)) : n \in -m..m}

Funcs == {[kind |-> kd, k |-> Whole(k)] : kd \in {"lin", "sq", "inv"}, k \in -MaxK..MaxK}

\* tol > 0: the smallest positive float, one half, and one.
Tols == {<<1, Pow2(FracBits)>>, <<1, 2>>, <<1, 1>>}

Inputs ==
    IF exact
    THEN [f : {[kind |-> "sq", k |-> Whole(2)]}, a : {Whole(0)}, b : {Whole(2)},
          tol : {<<1, Pow10(d)>> : d \in 1..MaxTolDigits},
          max_iter : (1..MaxIterExact) \cup {DefaultMaxIter}]
    ELSE [f : Funcs, a : FloatsUpTo(MaxIn), b : FloatsUpTo(MaxIn),
          tol : Tols, max_iter : 1..MaxIterBound]

\* ------------------------------------------------------------- actions
Start(ex) ==
    /\ exact = ex
    /\ pc = "idle"
    /\ fx = [kind |-> "lin", k |-> Zero]
    /\ in_a = Zero /\ in_b = Zero /\ tol = Zero /\ max_iter = 1
    /\ a = Zero /\ b = Zero /\ fa = Undef /\ fb = Undef
    /\ i = 0 /\ rows = <<>> /\ c_exact = TRUE
    /\ state = "Running" /\ err = "none"
    /\ df = <<>> /\ root = Undef /\ froot = Undef /\ iters = 0

Init == Start(FALSE)
InitExact == Start(TRUE)

\* The button: the main action calls regula_falsi with the sidebar's values
\* (lines 72-79); regula_falsi evaluates f at both ends and tests the signs
\* (lines 41-48).
Compute ==
    /\ pc = "idle"
    /\ \E inp \in Inputs :
        \E va \in {F(inp.f, inp.a)} :
        \E vb \in {IF va = Undef THEN Undef ELSE F(inp.f, inp.b)} :
            /\ fx' = inp.f /\ in_a' = inp.a /\ in_b' = inp.b
            /\ tol' = inp.tol /\ max_iter' = inp.max_iter
            /\ a' = inp.a /\ b' = inp.b /\ fa' = va /\ fb' = vb
            /\ IF va = Undef \/ vb = Undef
               THEN pc' = "raised" /\ err' = "EvalError" /\ state' = "Failed" /\ i' = 0
               ELSE IF SameSign(va, vb)
               THEN pc' = "raised" /\ err' = "SignError" /\ state' = "Failed" /\ i' = 0
               ELSE pc' = "loop" /\ err' = "none" /\ state' = "Running" /\ i' = 1
    /\ rows' = <<>>
    /\ UNCHANGED <<exact, c_exact, df, root, froot, iters>>

\* One pass of the loop body (lines 49-64).
Iterate ==
    /\ pc = "loop"
    /\ IF Sub(fb, fa) = Zero
       THEN Raise("ZeroDivisionError")
       ELSE \E fp \in {FalsePosition(a, b, fa, fb)} :
            \E c \in {fp.c} :
            \E fc \in {F(fx, c)} :
                IF fc = Undef
                THEN Raise("EvalError")
                ELSE /\ rows' = Append(rows, MkRow(i, a, b, c, fa, fb, fc))
                     /\ c_exact' = fp.exact
                     /\ err' = err
                     /\ IF Stop(fc, tol)
                        THEN /\ pc' = "exit" /\ state' = "Converged"
                             /\ UNCHANGED <<a, b, fa, fb, i>>
                        ELSE /\ IF ReplaceB(fa, fc)
                                THEN b' = c /\ fb' = fc /\ UNCHANGED <<a, fa>>
                                ELSE a' = c /\ fa' = fc /\ UNCHANGED <<b, fb>>
                             /\ IF i = max_iter
                                THEN pc' = "exit" /\ state' = "MaxIterReached" /\ i' = i
                                ELSE pc' = "loop" /\ state' = state /\ i' = i + 1
    /\ UNCHANGED <<exact, fx, in_a, in_b, tol, max_iter, df, root, froot, iters>>

\* Mutant of Return: the summary read off the first row.
ReturnFirstRow ==
    /\ pc = "exit"
    /\ df' = rows
    /\ root' = rows[1].c
    /\ froot' = rows[1].fc
    /\ iters' = rows[1].iter
    /\ pc' = "done"
    /\ UNCHANGED <<exact, fx, in_a, in_b, tol, max_iter, a, b, fa, fb, i, rows,
                   c_exact, state, err>>

\* regula_falsi returns the DataFrame (lines 66-67) and the main action reads
\* the summary off its last row (lines 84-86).
Return ==
    /\ pc = "exit"
    /\ df' = rows
    /\ root' = rows[Len(rows)].c
    /\ froot' = rows[Len(rows)].fc
    /\ iters' = rows[Len(rows)].iter
    /\ pc' = "done"
    /\ UNCHANGED <<exact, fx, in_a, in_b, tol, max_iter, a, b, fa, fb, i, rows,
                   c_exact, state, err>>

Next == Compute \/ Iterate \/ Return

Spec == Init /\ [][Next]_vars
SpecExact == InitExact /\ [][Next]_vars

\* ============================================================== claims
Last(sq) == sq[Len(sq)]
Between(x, lo, hi) == RLt(RMin(lo, hi), x) /\ RLt(x, RMax(lo, hi))

\* floor(x * 10^k) for x >= 0, by long division.
RECURSIVE DecDigits(_, _, _, _)
DecDigits(r, q, k, acc) ==
    IF k = 0 THEN acc
    ELSE DecDigits((r * 10) % q, q, k - 1, acc * 10 + ((r * 10) \div q))
DecFloor(x, k) == DecDigits(x[1] % x[2], x[2], k, x[1] \div x[2])

\* C1. Whenever f(a) and f(b) have the same sign at entry, the run ends in the
\* sign failure before the loop: no iteration has run (i = 0), no record
\* exists, and neither a DataFrame nor a summary has been produced.
C1_SignFailure ==
    (/\ pc # "idle"
     /\ F(fx, in_a) # Undef /\ F(fx, in_b) # Undef
     /\ Sign(F(fx, in_a)) = Sign(F(fx, in_b)))
    => /\ pc = "raised" /\ err = "SignError" /\ state = "Failed"
       /\ i = 0 /\ rows = <<>>
       /\ df = <<>> /\ root = Undef /\ froot = Undef /\ iters = 0

\* The spec's example shape: both values positive, as for x + 5 on [0, 1].
C1_Witness ==
    /\ err = "SignError" /\ fx.kind = "lin"
    /\ Sign(fa) = 1 /\ Sign(fb) = 1 /\ in_a # in_b

\* C2. Bracket invariant, as claimed: every record of the trace has
\* sign(fa) # sign(fb).
C2_BracketInvariant ==
    \A k \in 1..Len(rows) : Sign(rows[k].fa) # Sign(rows[k].fb)

\* C3, as claimed: in every record with a # b and sign(fa) # sign(fb), c lies
\* strictly between min(a, b) and max(a, b).
C3_BoundingAsClaimed ==
    \A k \in 1..Len(rows) :
        (rows[k].a # rows[k].b /\ Sign(rows[k].fa) # Sign(rows[k].fb))
        => Between(rows[k].c, rows[k].a, rows[k].b)

\* C3, amended: in every iteration with a # b and sign(fa) # sign(fb) whose
\* false-position point is computed without any rounding, c lies strictly
\* between min(a, b) and max(a, b) when fa and fb are both nonzero, c = a when
\* fa is zero and c = b when fb is zero.
C3_BoundingExact ==
    (Len(rows) > 0 /\ c_exact)
    => LET r == Last(rows)
       IN  (r.a # r.b /\ Sign(r.fa) # Sign(r.fb))
           => /\ (Sign(r.fa) # 0 /\ Sign(r.fb) # 0) => Between(r.c, r.a, r.b)
              /\ Sign(r.fa) = 0 => r.c = r.a
              /\ Sign(r.fb) = 0 => r.c = r.b

C3_Witness ==
    /\ Len(rows) >= 2 /\ c_exact
    /\ Sign(Last(rows).fa) * Sign(Last(rows).fb) < 0
    /\ Between(Last(rows).c, Last(rows).a, Last(rows).b)

\* C4. Stopping criterion: every record but the last has |fc| > tol, the loop
\* goes on only while every record has |fc| > tol, and a run that left the
\* loop is Converged exactly when its last record has |fc| <= tol (also at
\* iteration max_iter) and otherwise used up max_iter iterations.
C4_StoppingCriterion ==
    /\ \A k \in 1..(Len(rows) - 1) : RLt(tol, RAbs(rows[k].fc))
    /\ pc = "loop" => \A k \in 1..Len(rows) : RLt(tol, RAbs(rows[k].fc))
    /\ pc \in {"exit", "done"}
       => /\ state \in {"Converged", "MaxIterReached"}
          /\ state = "Converged" <=> RLe(RAbs(Last(rows).fc), tol)
          /\ state = "MaxIterReached" => Len(rows) = max_iter

\* Convergence in the very last permitted iteration.
C4_Witness ==
    /\ pc = "done" /\ state = "Converged"
    /\ max_iter >= 2 /\ Len(df) = max_iter
    /\ RLe(RAbs(froot), tol)

\* C5. Max-iteration soft stop: the loop runs iterations 1..max_iter at most;
\* once max_iter records exist, none with |fc| <= tol, the run has left the
\* loop as MaxIterReached with no exception; and what is then returned is the
\* whole trace of max_iter records, with root and residual the c and fc of
\* the last record.
C5_MaxIterSoftStop ==
    /\ pc = "loop" => (i <= max_iter /\ Len(rows) = i - 1)
    /\ (Len(rows) = max_iter /\ \A k \in 1..Len(rows) : RLt(tol, RAbs(rows[k].fc)))
       => (pc \in {"exit", "done"} /\ state = "MaxIterReached" /\ err = "none")
    /\ (pc = "done" /\ state = "MaxIterReached")
       => /\ df = rows /\ Len(df) = max_iter /\ iters = max_iter
          /\ root = Last(rows).c /\ froot = Last(rows).fc
          /\ RLt(tol, RAbs(froot))

C5_Witness ==
    /\ pc = "done" /\ state = "MaxIterReached" /\ err = "none"
    /\ max_iter >= 2 /\ iters = max_iter
    /\ root # df[1].c

\* C6. x^2 - 2 on [0, 2] with tol = 1e-6 and max_iter = 50: the run raises
\* nothing and ends Converged within 50 iterations with |f(root)| <= 1e-6 and
\* 1.4142126 <= root < 1.4142145, hence within 1e-6 of 1.4142135624.
C6_Instance ==
    /\ exact /\ pc # "idle"
    /\ fx = [kind |-> "sq", k |-> Whole(2)]
    /\ in_a = Whole(0) /\ in_b = Whole(2)
    /\ tol = <<1, 1000000>> /\ max_iter = DefaultMaxIter

C6_ConvergenceSqrt2 ==
    C6_Instance
    => /\ pc # "raised" /\ err = "none"
       /\ Len(rows) <= DefaultMaxIter
       /\ pc = "done"
          => /\ state = "Converged"
             /\ iters <= DefaultMaxIter
             /\ RLe(RAbs(froot), <<1, 1000000>>)
             /\ DecFloor(root, 7) >= 14142126
             /\ DecFloor(root, 7) <= 14142144

C6_Witness == C6_Instance /\ pc = "done" /\ iters >= 2

C8_TraceShape ==
    /\ [](/\ \A k \in 1..Len(rows) : rows[k].iter = k
          /\ Len(rows) <= max_iter
          /\ pc = "done" => df = rows)
    /\ [][\/ rows' = rows
          \/ /\ Len(rows') = Len(rows) + 1
             /\ SubSeq(rows', 1, Len(rows)) = rows]_vars

C8_Witness == Len(rows) >= 3 /\ pc = "done" /\ Last(df).iter = Len(df)

\* C9. Bracket update: record k+1 carries record k's bracket with one pair
\* replaced by record k's (c, fc): (b, fb) when sign(fa) * sign(fc) < 0,
\* otherwise (a, fa), zero signs included; the same holds of the current
\* bracket against the last record while the loop goes on.
C9_Updated(r, na, nfa, nb, nfb) ==
    IF Sign(r.fa) * Sign(r.fc) < 0
    THEN na = r.a /\ nfa = r.fa /\ nb = r.c /\ nfb = r.fc
    ELSE na = r.c /\ nfa = r.fc /\ nb = r.b /\ nfb = r.fb

C9_BracketUpdate ==
    /\ \A k \in 1..(Len(rows) - 1) :
          C9_Updated(rows[k], rows[k+1].a, rows[k+1].fa, rows[k+1].b, rows[k+1].fb)
    /\ (Len(rows) > 0 /\ (pc = "loop" \/ state = "MaxIterReached"))
       => C9_Updated(Last(rows), a, fa, b, fb)
    /\ (Len(rows) = 0 /\ pc = "loop") => (a = in_a /\ b = in_b)

\* A run whose first update is a tie (fa = 0, the a side replaced) and whose
\* second replaces the b side.
C9_Witness ==
    /\ Len(rows) >= 3
    /\ Sign(rows[1].fa) = 0 /\ rows[2].a = rows[1].c /\ rows[2].a # rows[1].a
    /\ rows[3].b = rows[2].c /\ rows[3].b # rows[2].b

\* C10. No division by zero, as claimed: the denominator fb - fa is nonzero
\* at every false-position step, and the run never ends in
\* ZeroDivisionError.
C10_NoDivisionByZero ==
    /\ err # "ZeroDivisionError"
    /\ pc = "loop" => Sub(fb, fa) # Zero

====
